---- MODULE Spec2Model ----
(***************************************************************************)
(* State-machine model of send_ai_daily.py: RSS ingestion with dedup,      *)
(* recency window and candidate cap; LLM scoring and top-N selection;      *)
(* report synthesis with schema repair; Feishu webhook delivery with       *)
(* retry; commit of the selected fingerprints to data/sent_hashes.txt.     *)
(*                                                                         *)
(* Encodings.  A link is a natural number, 0 standing for the empty        *)
(* string.  Time is counted in hours.  A published string is a record      *)
(* saying whether dateutil parses it, the wall-clock hour it denotes and   *)
(* its UTC offset (aware = FALSE when the text names no zone).  A JSON     *)
(* value is a record tagged by kind.                                       *)
(***************************************************************************)
EXTENDS Integers, Sequences, FiniteSets, TLC

\* ------------------------------------------------------------------ constants
MAX_CANDIDATES == 30
TOP_N == 3
HOURS_WINDOW == 48
SUMMARY_LIMIT == 500
ELLIPSIS_LEN == 3
MAX_ATTEMPTS == 3

\* ------------------------------------------------------------------- bounds
StartHour == 100        \* clock reading when a run starts
MaxDrift == 1           \* hours the clock may advance during ingestion
BulkSources == 2        \* largest number of sources of a bulk feed list
GhostLink == 99         \* a link the provider invents (no feed lists it)
MaxScores == 4          \* longest scores array explored for score_entries alone
MaxItems == 4           \* longest list a synthesis reply gives for a list field
MaxRuns == 2            \* number of successive runs explored

VARIABLES
    feeds,          \* RSS_URLS with what each url serves: a sequence of sources, each a sequence of entries
    webhook_set,    \* FEISHU_WEBHOOK_URL is non-empty
    disk,           \* content of data/sent_hashes.txt: its lines, one fingerprint each
    disk_at_start,  \* disk when the run began
    clock,          \* datetime.now(timezone.utc), in hours
    pc,             \* position of main
    exit_code,      \* process exit status (-1 while running)
    src_i, ent_i,   \* fetch_rss_entries: position in RSS_URLS and in feed.entries
    sent_hashes,    \* fetch_rss_entries: the set loaded at its start
    candidates,     \* fetch_rss_entries: the list being built
    origin,         \* history: for each candidate, the <<source, entry>> position it came from
    visited,        \* history: the loop body's passes, in order: [src, ent, now]
    failed,         \* history: the sources whose try block raised
    top_entries,    \* main: result of score_entries
    score_reply,    \* history: the parsed reply score_entries worked on
    llm_calls,      \* history: the call_llm_json calls, in order: [stage, outcome]
    synth_reply,    \* history: the parsed reply validate_and_fix_report worked on
    report,         \* main: result of generate_daily_report
    revalidated,    \* history: validate_and_fix_report applied to its own result: [raised, value]
    attempt,        \* send_to_feishu: loop variable of range(3)
    posts,          \* history: outcome of every requests.post to the webhook, in order
    sleeps,         \* history: the time.sleep durations, each with the attempt it followed
    delivery,       \* history: how send_to_feishu ended
    writes,         \* history: the contents save_sent_hashes wrote during this run, in order
    run,            \* history: number of this invocation of main
    earlier         \* history: the runs before this one: [selected, committed, posted, delivery]

vars == <<feeds, webhook_set, disk, disk_at_start, clock, pc, exit_code, src_i, ent_i,
          sent_hashes, candidates, origin, visited, failed, top_entries, score_reply, llm_calls,
          synth_reply, report, revalidated,
          attempt, posts, sleeps, delivery, writes, run, earlier>>

\* ------------------------------------------------------------ small helpers
Range(s) == {s[i] : i \in 1..Len(s)}

Take(s, n) == SubSeq(s, 1, IF Len(s) < n THEN Len(s) ELSE n)

\* ---------------------------------------------------------- fingerprinting
\* Mutant: a digest that links of the same parity share.
hash_link_colliding(link) == <<"sha256", link % 2>>

\* sha256 hex digest of the link: deterministic, and distinct links give distinct digests.
hash_link(link) == <<"sha256", link>>

\* The order of two digests as text lines (any fixed total order will do).
DigestBefore(h1, h2) == h1[2] < h2[2]

\* sorted(hashes): the lines save_sent_hashes writes.
RECURSIVE SortedLines(_)
SortedLines(hashes) ==
    IF hashes = {} THEN <<>>
    ELSE LET least == CHOOSE h \in hashes : \A g \in hashes \ {h} : DigestBefore(h, g)
         IN  <<least>> \o SortedLines(hashes \ {least})

\* The set load_sent_hashes builds from the lines of the file.
load_sent_hashes(file) == Range(file)

\* The file save_sent_hashes leaves.
save_sent_hashes(hashes) == SortedLines(hashes)

\* ------------------------------------------------------------ recency filter
Published(parses, wall, aware, offset) ==
    [parses |-> parses, wall |-> wall, aware |-> aware, utcoffset |-> offset]

Unparseable == Published(FALSE, 0, FALSE, 0)

\* date_parser.parse followed by the tzinfo default: the instant in UTC hours.
pub_time(published) ==
    IF published.aware THEN published.wall - published.utcoffset ELSE published.wall

\* Mutant: the window edge is excluded.
is_recent_exclusive(published, now, hours) ==
    IF ~published.parses THEN FALSE
    ELSE (now - pub_time(published)) < hours

is_recent(published, now, hours) ==
    IF ~published.parses THEN FALSE
    ELSE (now - pub_time(published)) <= hours

\* ------------------------------------------------------------- feed entries
Entry(link, published, summary) ==
    [title |-> link, link |-> link, published |-> published, summary |-> summary]

Fresh     == Published(TRUE, StartHour - 1, FALSE, 0)
Edge      == Published(TRUE, StartHour - HOURS_WINDOW, FALSE, 0)
EdgeZoned == Published(TRUE, StartHour - HOURS_WINDOW + 8, TRUE, 8)
Stale     == Published(TRUE, StartHour - HOURS_WINDOW - 1, FALSE, 0)
Ahead     == Published(TRUE, StartHour + MaxDrift + 1, FALSE, 0)

PublishedTexts == {Fresh, Edge, EdgeZoned, Stale, Ahead, Unparseable}

\* One entry of every kind the filter tells apart: empty / seen / unseen link,
\* each published text, a summary over the limit.
FilterEntries ==
    {Entry(l, p, IF l = 2 THEN SUMMARY_LIMIT + 1 ELSE SUMMARY_LIMIT) :
        l \in 0..2, p \in PublishedTexts}

PairEntries == {Entry(1, Fresh, 1), Entry(2, Edge, 1)}

ShortSources == {<<>>} \cup {<<e>> : e \in PairEntries}
                       \cup {<<e, f>> : e \in PairEntries, f \in PairEntries}

\* A source of k fresh entries with links first+1 .. first+k.
BulkSource(first, k) == [j \in 1..k |-> Entry(first + j, Fresh, 1)]

\* n sources of k entries each, all links distinct.
BulkFeeds(n, k) == [i \in 1..n |-> BulkSource((i - 1) * k, k)]

\* Sizes at which n equal sources reach the cap with the last entry of the last
\* source, or one entry before it.
BulkSizes(n) == {MAX_CANDIDATES \div n, MAX_CANDIDATES \div n + 1}

\* The feed lists ingestion is explored on.
FetchFeeds ==
    {<<>>}
    \cup {<<<<e>>>> : e \in FilterEntries}
    \cup {<<s, t>> : s \in ShortSources, t \in ShortSources}
    \cup UNION {{BulkFeeds(n, k) : k \in BulkSizes(n)} : n \in 1..BulkSources}
    \cup {<<BulkSource(0, MAX_CANDIDATES + 1), BulkSource(MAX_CANDIDATES + 1, 1)>>}

\* The feed lists a whole run is explored on: no source, one unseen entry, one entry
\* listed by two sources, a seen and an unseen entry, and five unseen entries over two
\* sources.
MainFeeds ==
    { <<>>,
      <<<<Entry(2, Fresh, 1)>>>>,
      <<<<Entry(2, Fresh, 1)>>, <<Entry(2, Fresh, 1)>>>>,
      <<<<Entry(1, Fresh, 1), Entry(2, Edge, SUMMARY_LIMIT + 1)>>, <<Entry(0, Fresh, 1)>>>>,
      <<BulkSource(0, 2), BulkSource(2, 3)>> }

\* The store a run may find: no file yet (created empty), or link 1 already sent.
StartDisks == {<<>>, <<hash_link(1)>>}

\* ------------------------------------------------------------ fetch_rss_entries
\* summary[:500] + "..." when longer than 500 (summaries are modelled by their length).
Truncated(summary) ==
    IF summary > SUMMARY_LIMIT THEN SUMMARY_LIMIT + ELLIPSIS_LEN ELSE summary

\* Mutant: the store is not consulted.
QualifiesIgnoringStore(entry, hashes, now) ==
    /\ entry.link # 0
    /\ is_recent(entry.published, now, HOURS_WINDOW)

\* The three `continue` tests of the loop body.
Qualifies(entry, hashes, now) ==
    /\ entry.link # 0
    /\ hash_link(entry.link) \notin hashes
    /\ is_recent(entry.published, now, HOURS_WINDOW)

Candidate(entry) ==
    [title |-> entry.title, link |-> entry.link, summary |-> Truncated(entry.summary),
     published |-> entry.published, hash |-> hash_link(entry.link)]

\* Mutant: the loops stop one candidate late.
CapReachedLate(cands) == Len(cands) > MAX_CANDIDATES

\* Both `len(candidates) >= MAX_CANDIDATES` tests (inner and outer break).
CapReached(cands) == Len(cands) >= MAX_CANDIDATES

\* Mutant: the except clause leaves the loop over the urls.
AfterFailureBreak(i, n) == n + 1

\* `continue` in the except clause: the url the loop takes after url i raised.
AfterFailure(i, n) == i + 1

\* What main does with the list fetch_rss_entries returns.
AfterFetch(cands) == IF cands = <<>> THEN "Done" ELSE "Scoring"

laterUnchanged ==
    UNCHANGED <<top_entries, score_reply, llm_calls, synth_reply, report, revalidated,
                attempt, posts, sleeps, delivery>>
envUnchanged == UNCHANGED <<feeds, webhook_set, disk, disk_at_start, writes, run, earlier>>

\* One pass of the inner loop body on feeds[src_i][ent_i].
ProcessEntry ==
    /\ pc = "Ingesting"
    /\ src_i <= Len(feeds)
    /\ ent_i <= Len(feeds[src_i])
    /\ LET entry == feeds[src_i][ent_i]
           cands == IF Qualifies(entry, sent_hashes, clock)
                    THEN Append(candidates, Candidate(entry)) ELSE candidates
       IN  /\ candidates' = cands
           /\ origin' = IF Len(cands) > Len(candidates)
                        THEN Append(origin, <<src_i, ent_i>>) ELSE origin
           /\ visited' = Append(visited, [src |-> src_i, ent |-> ent_i, now |-> clock])
           /\ IF CapReached(cands)
              THEN /\ pc' = AfterFetch(cands)
                   /\ UNCHANGED <<src_i, ent_i>>
              ELSE /\ ent_i' = ent_i + 1
                   /\ UNCHANGED <<pc, src_i>>
    /\ UNCHANGED <<clock, exit_code, sent_hashes, failed>>
    /\ envUnchanged /\ laterUnchanged

\* The clock readings possible once the next feed has been downloaded: time passes
\* during the network calls, not between two entries of a parsed feed.
LaterReadings == clock..(StartHour + MaxDrift)

\* feed.entries is used up: the outer test is false, the next url is taken.
SourceExhausted ==
    /\ pc = "Ingesting"
    /\ src_i <= Len(feeds)
    /\ ent_i > Len(feeds[src_i])
    /\ src_i' = src_i + 1
    /\ ent_i' = 1
    /\ clock' \in LaterReadings
    /\ UNCHANGED <<pc, exit_code, sent_hashes, candidates, origin, visited, failed>>
    /\ envUnchanged /\ laterUnchanged

\* feedparser.parse or the loop body raises: except Exception ... continue.
SourceFails ==
    /\ pc = "Ingesting"
    /\ src_i <= Len(feeds)
    /\ (ent_i = 1 \/ ent_i <= Len(feeds[src_i]))
    /\ src_i' = AfterFailure(src_i, Len(feeds))
    /\ ent_i' = 1
    /\ failed' = failed \cup {src_i}
    /\ clock' \in LaterReadings
    /\ UNCHANGED <<pc, exit_code, sent_hashes, candidates, origin, visited>>
    /\ envUnchanged /\ laterUnchanged

\* RSS_URLS is used up: fetch_rss_entries returns, main tests `if not candidates`.
FetchReturn ==
    /\ pc = "Ingesting"
    /\ src_i > Len(feeds)
    /\ pc' = AfterFetch(candidates)
    /\ exit_code' = IF candidates = <<>> THEN 0 ELSE exit_code
    /\ UNCHANGED <<clock, src_i, ent_i, sent_hashes, candidates, origin, visited, failed>>
    /\ envUnchanged /\ laterUnchanged

FetchNext == ProcessEntry \/ SourceExhausted \/ SourceFails \/ FetchReturn

\* --------------------------------------------------------------- call_llm_json
\* The ways call_openai_json / call_qwen_json end in sys.exit(1).
LlmFailures == {"no_api_key", "transport", "http_status", "bad_content"}


Call(stage, outcome) == [stage |-> stage, outcome |-> outcome]

\* Where the except clauses leave the process: sys.exit(1).
SysExitSwallowed == [pc |-> "Done", exit_code |-> 0]
sys_exit == [pc |-> "Aborted", exit_code |-> 1]

\* ---------------------------------------------------------------- score_entries
\* A score record is a function on a subset of {"link", "score", "reason"}.
ScoreKey(s) == IF "score" \in DOMAIN s THEN s.score ELSE 0

\* Mutant: a sort that puts a record before the records that tie with it.
InsertBeforeTies(sorted, x) ==
    LET n == Cardinality({i \in 1..Len(sorted) : ScoreKey(sorted[i]) > ScoreKey(x)})
    IN  SubSeq(sorted, 1, n) \o <<x>> \o SubSeq(sorted, n + 1, Len(sorted))

\* Where list.sort(reverse=True) leaves x among records already in descending order:
\* after every record whose key is >= its own (the sort is stable).
InsertDescending(sorted, x) ==
    LET n == Cardinality({i \in 1..Len(sorted) : ScoreKey(sorted[i]) >= ScoreKey(x)})
    IN  SubSeq(sorted, 1, n) \o <<x>> \o SubSeq(sorted, n + 1, Len(sorted))

RECURSIVE SortDescending(_)
SortDescending(scores) ==
    IF scores = <<>> THEN <<>>
    ELSE InsertDescending(SortDescending(SubSeq(scores, 1, Len(scores) - 1)),
                          scores[Len(scores)])

\* scores[:TOP_N] after the sort.
TopScores(scores) == Take(SortDescending(scores), TOP_N)

\* link_map: the dict comprehension keeps the last candidate of each link.
LinkMapHas(entries, link) == \E i \in 1..Len(entries) : entries[i].link = link

LinkMapGet(entries, link) ==
    entries[CHOOSE i \in 1..Len(entries) :
                /\ entries[i].link = link
                /\ \A j \in (i + 1)..Len(entries) : entries[j].link # link]

\* s["link"], s["score"], s["reason"] raise KeyError on a record without the key.
RecordRaises(entries, s) ==
    \/ "link" \notin DOMAIN s
    \/ /\ LinkMapHas(entries, s.link)
       /\ ("score" \notin DOMAIN s \/ "reason" \notin DOMAIN s)

ScoredEntry(entry, s) ==
    [title |-> entry.title, link |-> entry.link, summary |-> entry.summary,
     published |-> entry.published, hash |-> entry.hash,
     score |-> s.score, score_reason |-> s.reason]

\* Mutant: the loop stops at the first record whose link is no candidate's.
RECURSIVE RejoinUntilMiss(_, _)
RejoinUntilMiss(entries, top) ==
    IF top = <<>> THEN <<>>
    ELSE IF LinkMapHas(entries, Head(top).link)
         THEN <<ScoredEntry(LinkMapGet(entries, Head(top).link), Head(top))>>
                  \o RejoinUntilMiss(entries, Tail(top))
         ELSE <<>>

\* The loop over top_scores: the records whose link is a candidate's, in order.
RECURSIVE Rejoin(_, _)
Rejoin(entries, top) ==
    IF top = <<>> THEN <<>>
    ELSE IF LinkMapHas(entries, Head(top).link)
         THEN <<ScoredEntry(LinkMapGet(entries, Head(top).link), Head(top))>>
                  \o Rejoin(entries, Tail(top))
         ELSE Rejoin(entries, Tail(top))

\* score_entries on the parsed reply: [raised, value].  The reply is
\* [object, has_scores, is_list, scores].
score_entries(entries, reply) ==
    IF entries = <<>> THEN [raised |-> FALSE, value |-> <<>>]
    ELSE IF ~reply.object THEN [raised |-> TRUE, value |-> <<>>]
    ELSE IF ~reply.has_scores THEN [raised |-> FALSE, value |-> <<>>]
    ELSE IF ~reply.is_list THEN [raised |-> TRUE, value |-> <<>>]
    ELSE LET top == TopScores(reply.scores)
         IN  IF \E i \in 1..Len(top) : RecordRaises(entries, top[i])
             THEN [raised |-> TRUE, value |-> <<>>]
             ELSE [raised |-> FALSE, value |-> Rejoin(entries, top)]

ScoresReply(scores) == [object |-> TRUE, has_scores |-> TRUE, is_list |-> TRUE, scores |-> scores]
NotAnObject == [object |-> FALSE, has_scores |-> FALSE, is_list |-> FALSE, scores |-> <<>>]
NoScoresKey == [object |-> TRUE, has_scores |-> FALSE, is_list |-> FALSE, scores |-> <<>>]
ScoresNotAList == [object |-> TRUE, has_scores |-> TRUE, is_list |-> FALSE, scores |-> <<>>]

ScoreRecord(link, score, reason) == [link |-> link, score |-> score, reason |-> reason]

\* A record for each of the first five candidates, scored 1, 2, 1, 2, 1.
Ranking(entries) ==
    [i \in 1..(IF Len(entries) < 5 THEN Len(entries) ELSE 5) |->
        ScoreRecord(entries[i].link, 1 + ((i + 1) % 2), i)]

\* The replies of the scoring call a whole run is explored on.
MainScoreReplies(entries) ==
    { NotAnObject, NoScoresKey, ScoresNotAList,
      ScoresReply(<<>>),
      ScoresReply(Ranking(entries)),
      ScoresReply(<<ScoreRecord(GhostLink, 2, 1)>>),
      ScoresReply(<<ScoreRecord(GhostLink, 2, 1), ScoreRecord(entries[1].link, 1, 2)>>),
      ScoresReply(<<[link |-> entries[1].link, score |-> 1]>>) }

\* main, step 2: `top_entries = score_entries(candidates)` and the test after it.
ScoreFails ==
    /\ pc = "Scoring"
    /\ \E failure \in LlmFailures :
        llm_calls' = Append(llm_calls, Call("score", failure))
    /\ pc' = sys_exit.pc
    /\ exit_code' = sys_exit.exit_code
    /\ UNCHANGED <<clock, src_i, ent_i, sent_hashes, candidates, origin, visited, failed>>
    /\ UNCHANGED <<top_entries, score_reply, synth_reply, report, revalidated>>
    /\ UNCHANGED <<attempt, posts, sleeps, delivery>>
    /\ envUnchanged

\* Mutant: main goes on to synthesis with an empty selection.
AfterScoreGoesOn(top) == "Synthesizing"

\* What main does with the list score_entries returns: `if not top_entries: return`.
AfterScore(top) == IF top = <<>> THEN "Done" ELSE "Synthesizing"

\* The effect of score_entries returning or raising on `reply`, and of main's test.
ScoreStep(reply) ==
    LET result == score_entries(candidates, reply)
    IN  /\ llm_calls' = Append(llm_calls, Call("score", "ok"))
        /\ score_reply' = reply
        /\ top_entries' = result.value
        /\ pc' = IF result.raised THEN "Crashed" ELSE AfterScore(result.value)
        /\ exit_code' = IF result.raised THEN 1
                        ELSE IF AfterScore(result.value) = "Done" THEN 0 ELSE exit_code
        /\ UNCHANGED <<clock, src_i, ent_i, sent_hashes, candidates, origin, visited, failed>>
        /\ UNCHANGED <<synth_reply, report, revalidated, attempt, posts, sleeps, delivery>>
        /\ envUnchanged

ScoreReturns ==
    /\ pc = "Scoring"
    /\ \E reply \in MainScoreReplies(candidates) : ScoreStep(reply)

\* ------------------------------------------------------------------ JSON values
JNull == [kind |-> "null"]
JBool(b) == [kind |-> "bool", bool |-> b]
JNum(n) == [kind |-> "num", num |-> n]
JStr(s) == [kind |-> "str", str |-> s]
JList(items) == [kind |-> "list", items |-> items]
JDict(fields) == [kind |-> "dict", fields |-> fields]

EmptyFields == [k \in {} |-> JNull]

IsDict(v) == v.kind = "dict"
IsList(v) == v.kind = "list"

\* Python truth value of a JSON value.
Truthy(v) ==
    CASE v.kind = "null" -> FALSE
      [] v.kind = "bool" -> v.bool
      [] v.kind = "num"  -> v.num # 0
      [] v.kind = "str"  -> v.str # ""
      [] v.kind = "list" -> v.items # <<>>
      [] v.kind = "dict" -> DOMAIN v.fields # {}

\* `key in d`, d.get(key, default) and d[key] = value on a dict's fields.
Has(fields, key) == key \in DOMAIN fields
Get(fields, key, default) == IF Has(fields, key) THEN fields[key] ELSE default
Put(fields, key, value) ==
    [k \in DOMAIN fields \cup {key} |-> IF k = key THEN value ELSE fields[k]]

\* ------------------------------------------------------ validate_and_fix_report
NoImpact == JStr("no-impact")

Groups == {"business", "tech", "delivery"}

Roles(group) ==
    CASE group = "business" -> {"boss", "market", "pm"}
      [] group = "tech"     -> {"algo", "frontend", "backend", "qa"}
      [] group = "delivery" -> {"ui", "presales", "surveying"}

DefaultGroup(group) == JDict([role \in Roles(group) |-> NoImpact])

DefaultDecision == JDict([level |-> JStr("watch"), reason |-> JStr("to-assess")])
DefaultAction == JDict([label |-> JStr("observe"), detail |-> JStr("keep-watching")])

default_report ==
    [date |-> JStr("today"),
     theme |-> JStr("ai-news"),
     decision |-> DefaultDecision,
     core_changes |-> JList(<<>>),
     related |-> JList(<<>>),
     impacts |-> JDict([group \in Groups |-> DefaultGroup(group)]),
     action |-> DefaultAction,
     sources |-> JList(<<>>)]

\* The first loop: every key of default_report the report lacks is set to its default.
MergeDefaults(fields) ==
    [k \in DOMAIN fields \cup DOMAIN default_report |->
        IF Has(fields, k) THEN fields[k] ELSE default_report[k]]

\* Mutant: only the roles a cluster lacks are filled in, an empty text is kept.
FixGroupMissingOnly(group, cluster) ==
    JDict([role \in DOMAIN cluster.fields \cup Roles(group) |->
              IF role \in Roles(group) /\ ~Has(cluster.fields, role)
              THEN NoImpact ELSE cluster.fields[role]])

\* The inner loop over the roles of a group that is present and is a dict.
FixGroup(group, cluster) ==
    JDict([role \in DOMAIN cluster.fields \cup Roles(group) |->
              IF role \in Roles(group)
                 /\ (~Has(cluster.fields, role) \/ ~Truthy(cluster.fields[role]))
              THEN NoImpact ELSE cluster.fields[role]])

\* `group not in impacts`, `role not in impacts[group]`, `impacts[group][role]` and the
\* item assignments raise TypeError as soon as impacts, or a group that is present, is
\* not a dict: membership fails on null, numbers and booleans, and a string or a list
\* refuses the string subscript that follows either answer of the membership test.
ImpactsRaise(impacts) ==
    \/ ~IsDict(impacts)
    \/ \E group \in Groups : Has(impacts.fields, group) /\ ~IsDict(impacts.fields[group])

FixImpacts(impacts) ==
    JDict([g \in DOMAIN impacts.fields \cup Groups |->
              IF g \notin Groups THEN impacts.fields[g]
              ELSE IF ~Has(impacts.fields, g) THEN DefaultGroup(g)
              ELSE FixGroup(g, impacts.fields[g])])

\* decision and action: the default when absent or no dict, else the two keys filled in.
FixPair(value, default) ==
    IF ~IsDict(value) THEN default
    ELSE JDict([k \in DOMAIN value.fields \cup DOMAIN default.fields |->
                   IF Has(value.fields, k) THEN value.fields[k] ELSE default.fields[k]])

\* Mutant: the slice starts at the second item (value[1:n + 1]).
TruncateFromSecond(value, n, otherwise) ==
    IF IsList(value)
    THEN JList(Take(IF value.items = <<>> THEN <<>> ELSE Tail(value.items), n))
    ELSE otherwise

\* value[:n] when value is a list, else `otherwise`.
Truncate(value, n, otherwise) ==
    IF IsList(value) THEN JList(Take(value.items, n)) ELSE otherwise

\* validate_and_fix_report on the parsed reply: [raised, value].  A reply that is no
\* object raises in the first loop (item assignment or membership on a non-dict).
validate_and_fix_report(reply) ==
    IF ~IsDict(reply) THEN [raised |-> TRUE, value |-> reply]
    ELSE LET merged == MergeDefaults(reply.fields)
         IN  IF ImpactsRaise(merged.impacts) THEN [raised |-> TRUE, value |-> reply]
             ELSE [raised |-> FALSE,
                   value |-> JDict(
                     [k \in DOMAIN merged |->
                        CASE k = "impacts"      -> FixImpacts(merged.impacts)
                          [] k = "decision"     -> FixPair(merged.decision, DefaultDecision)
                          [] k = "core_changes" -> Truncate(merged.core_changes, 2, merged.core_changes)
                          [] k = "related"      -> Truncate(merged.related, 2, JList(<<>>))
                          [] k = "sources"      -> Truncate(merged.sources, 3, merged.sources)
                          [] k = "action"       -> FixPair(merged.action, DefaultAction)
                          [] OTHER              -> merged[k]])]

\* --------------------------------------------------------- generate_daily_report
SourceItem(entry) == JDict([title |-> JNum(entry.title), link |-> JNum(entry.link)])

Texts(n) == [i \in 1..n |-> JStr("text")]

\* A reply that follows the contract, except that it gives three core changes and
\* leaves out `related`.
ContractReply(top) ==
    [date |-> JStr("today"),
     theme |-> JStr("theme"),
     decision |-> JDict([level |-> JStr("pilot"), reason |-> JStr("why")]),
     core_changes |-> JList(Texts(3)),
     impacts |-> JDict([group \in Groups |->
                          JDict([role \in Roles(group) |-> JStr("text")])]),
     action |-> JDict([label |-> JStr("pilot"), detail |-> JStr("who-what")]),
     sources |-> JList([i \in 1..Len(top) |-> SourceItem(top[i])])]

With(fields, key, value) == JDict(Put(fields, key, value))

\* The parsed replies of the synthesis call a whole run is explored on.
MainSynthReplies(top) ==
    { JDict(EmptyFields),
      JDict(ContractReply(top)),
      With(ContractReply(top), "sources", JList(<<JStr("url")>>)),
      With(ContractReply(top), "core_changes", JNum(5)),
      With(ContractReply(top), "impacts", JStr("none")),
      JList(<<>>) }

\* main, step 3: `report = generate_daily_report(top_entries)`.
SynthFails ==
    /\ pc = "Synthesizing"
    /\ \E failure \in LlmFailures :
        llm_calls' = Append(llm_calls, Call("synthesize", failure))
    /\ pc' = sys_exit.pc
    /\ exit_code' = sys_exit.exit_code
    /\ UNCHANGED <<clock, src_i, ent_i, sent_hashes, candidates, origin, visited, failed>>
    /\ UNCHANGED <<top_entries, score_reply, synth_reply, report, revalidated>>
    /\ UNCHANGED <<attempt, posts, sleeps, delivery>>
    /\ envUnchanged

\* No second validation has happened (main validates once).
NotValidated == [raised |-> FALSE, value |-> JNull]

\* The effect of generate_daily_report returning or raising on the parsed `reply`.
SynthStep(reply) ==
    LET result == validate_and_fix_report(reply)
    IN  /\ llm_calls' = Append(llm_calls, Call("synthesize", "ok"))
        /\ synth_reply' = reply
        /\ report' = result.value
        /\ pc' = IF result.raised THEN "Crashed" ELSE "Delivering"
        /\ exit_code' = IF result.raised THEN 1 ELSE exit_code
        /\ UNCHANGED <<clock, src_i, ent_i, sent_hashes, candidates, origin, visited, failed>>
        /\ UNCHANGED <<top_entries, score_reply, revalidated, attempt, posts, sleeps, delivery>>
        /\ envUnchanged

SynthReturns ==
    /\ pc = "Synthesizing"
    /\ \E reply \in MainSynthReplies(top_entries) : SynthStep(reply)

\* ------------------------------------------------ replies the validator is explored on
Without(fields, key) == [k \in DOMAIN fields \ {key} |-> fields[k]]

\* A list of k distinct items, k up to n.
ListShapes(n) == {JList([i \in 1..k |-> JNum(i)]) : k \in 0..n}

\* What a provider may send where a list is expected.
NonLists ==
    {JNull, JNum(5), JStr(""), JStr("abc"),
     JDict([a |-> JNum(1), b |-> JNum(2), c |-> JNum(3)])}

\* What a provider may send where a text is expected.
TextShapes == {JStr("text"), JStr(""), JNull, JNum(0)}

\* What a provider may send for decision or action (keys as in `default`).
PairShapes(default) ==
    {JNull, JStr("text"), JList(<<>>)}
    \cup UNION {{JDict(f) : f \in [keys -> {JStr("text"), JStr("")}]} :
                   keys \in SUBSET DOMAIN default.fields}

\* What a provider may send for one role of a cluster.
RoleValues == {JStr("text"), JStr(""), JNull, JList(<<>>), JNum(0), JBool(FALSE)}

FullCluster(group) == JDict([role \in Roles(group) |-> JStr("text")])

ClusterShapes(group) ==
    {JDict(EmptyFields), FullCluster(group), JNull, JStr(""), JStr("none"), JList(<<>>), JNum(0)}
    \cup UNION {{With(FullCluster(group).fields, role, v) : v \in RoleValues} :
                   role \in Roles(group)}
    \cup {JDict(Without(FullCluster(group).fields, role)) : role \in Roles(group)}
    \cup {With(FullCluster(group).fields, "extra", JStr("text"))}

FullImpacts == JDict([group \in Groups |-> FullCluster(group)])

ImpactShapes ==
    {JNull, JStr("none"), JList(<<>>), JNum(0), JDict(EmptyFields)}
    \cup UNION {UNION {{With(base, group, c) : c \in ClusterShapes(group)} :
                          group \in Groups} :
                   base \in {EmptyFields, FullImpacts.fields}}
    \cup {JDict(Without(FullImpacts.fields, group)) : group \in Groups}

FieldShapes(key) ==
    CASE key \in {"date", "theme"} -> TextShapes
      [] key = "decision" -> PairShapes(DefaultDecision)
      [] key = "action" -> PairShapes(DefaultAction)
      [] key \in {"core_changes", "related", "sources"} -> ListShapes(MaxItems) \cup NonLists
      [] key = "impacts" -> ImpactShapes

\* The objects validate_and_fix_report is explored on: the empty object and a reply that
\* follows the contract, each with one field taken away or given any of its shapes, and
\* each with the three list fields of the same length.
ValidateReplies(top) ==
    LET bases == {EmptyFields, ContractReply(top)}
    IN  {JDict(base) : base \in bases}
        \cup UNION {{JDict(Without(base, key)) : key \in DOMAIN default_report} :
                       base \in bases}
        \cup UNION {UNION {{With(base, key, v) : v \in FieldShapes(key)} :
                              key \in DOMAIN default_report} :
                       base \in bases}
        \cup UNION {{With(Put(Put(base, "core_changes", v), "related", v), "sources", v) :
                         v \in ListShapes(MaxItems)} :
                       base \in bases}

\* ---------------------------------------------------------------- send_to_feishu
\* `for c in core_changes` (and related) behind `if core_changes`: a truthy number or
\* boolean is not iterable.
BulletsRaise(value) == Truthy(value) /\ value.kind \in {"num", "bool"}

\* `for idx, src in enumerate(sources)` with src.get(...): enumerate needs an
\* iterable, and every item needs .get (the characters of a string and the keys of a
\* dict are strings).
SourcesRaise(value) ==
    CASE value.kind \in {"null", "num", "bool"} -> TRUE
      [] value.kind = "str"  -> value.str # ""
      [] value.kind = "dict" -> DOMAIN value.fields # {}
      [] value.kind = "list" -> \E i \in 1..Len(value.items) : ~IsDict(value.items[i])

\* x.get(...) on the value found under a key that must hold a dict.
GetRaises(fields, key) == Has(fields, key) /\ ~IsDict(fields[key])

\* Building the card (lines 410-541) raises.
RenderRaises(doc) ==
    \/ GetRaises(doc.fields, "impacts")
    \/ /\ Has(doc.fields, "impacts")
       /\ \E group \in Groups : GetRaises(doc.fields.impacts.fields, group)
    \/ BulletsRaise(Get(doc.fields, "core_changes", JList(<<>>)))
    \/ BulletsRaise(Get(doc.fields, "related", JList(<<>>)))
    \/ SourcesRaise(Get(doc.fields, "sources", JList(<<>>)))
    \/ GetRaises(doc.fields, "decision")
    \/ GetRaises(doc.fields, "action")

\* What one pass of the retry loop can meet: requests.post raises, raise_for_status
\* raises, resp.json() raises, the body's code is not 0, the body's code is 0.
PostExceptions == {"transport", "http_status", "bad_body"}
PostOutcomes == PostExceptions \cup {"nonzero_code", "ok"}

\* `if result.get("code") == 0: return`
Accepted(outcome) == outcome = "ok"

\* The time.sleep of the pass with loop variable att: only the except clause sleeps.
Backoff(att, outcome) ==
    IF outcome \in PostExceptions /\ att < MAX_ATTEMPTS - 1
    THEN <<[after |-> att + 1, seconds |-> 2 ^ att]>>
    ELSE <<>>

\* Mutant: the loop is never used up.
LastPassNever(att) == att + 1 > MAX_ATTEMPTS

\* Mutant: the loop gives up one pass early.
LastPassEarly(att) == att + 2 >= MAX_ATTEMPTS

\* range(3) is used up after the pass with loop variable att.
LastPass(att) == att + 1 >= MAX_ATTEMPTS

\* `if not FEISHU_WEBHOOK_URL: return`
SendSkipped ==
    /\ pc = "Delivering"
    /\ ~webhook_set
    /\ delivery' = "skipped"
    /\ pc' = "Committing"
    /\ UNCHANGED <<clock, exit_code, src_i, ent_i, sent_hashes, candidates, origin, visited, failed>>
    /\ UNCHANGED <<top_entries, score_reply, llm_calls, synth_reply, report, revalidated>>
    /\ UNCHANGED <<attempt, posts, sleeps>>
    /\ envUnchanged

\* The card cannot be built: the exception leaves send_to_feishu and main.
SendRaises ==
    /\ pc = "Delivering"
    /\ webhook_set
    /\ RenderRaises(report)
    /\ delivery' = "raised"
    /\ pc' = "Crashed"
    /\ exit_code' = 1
    /\ UNCHANGED <<clock, src_i, ent_i, sent_hashes, candidates, origin, visited, failed>>
    /\ UNCHANGED <<top_entries, score_reply, llm_calls, synth_reply, report, revalidated>>
    /\ UNCHANGED <<attempt, posts, sleeps>>
    /\ envUnchanged

\* One pass of `for attempt in range(3)`.
Post ==
    /\ pc = "Delivering"
    /\ webhook_set
    /\ ~RenderRaises(report)
    /\ attempt < MAX_ATTEMPTS
    /\ \E outcome \in PostOutcomes :
        /\ posts' = Append(posts, outcome)
        /\ sleeps' = sleeps \o Backoff(attempt, outcome)
        /\ IF Accepted(outcome)
           THEN /\ delivery' = "ok"
                /\ pc' = "Committing"
                /\ attempt' = attempt
           ELSE /\ attempt' = attempt + 1
                /\ delivery' = IF LastPass(attempt) THEN "failed" ELSE delivery
                /\ pc' = IF LastPass(attempt) THEN "Committing" ELSE pc
    /\ UNCHANGED <<clock, exit_code, src_i, ent_i, sent_hashes, candidates, origin, visited, failed>>
    /\ UNCHANGED <<top_entries, score_reply, llm_calls, synth_reply, report, revalidated>>
    /\ envUnchanged

\* ------------------------------------------------------------------ main, step 5
\* Mutant: the fingerprints of all candidates are committed.
NewHashesOfCandidates(top) == {candidates[i].hash : i \in 1..Len(candidates)}

\* new_hashes = {e["hash"] for e in top_entries}
NewHashes(top) == {top[i].hash : i \in 1..Len(top)}

\* Mutant: the store is only updated when the webhook accepted the card.
CommittedIfDelivered(file, top) ==
    IF delivery = "ok" THEN save_sent_hashes(load_sent_hashes(file) \cup NewHashes(top))
    ELSE file

Committed(file, top) == save_sent_hashes(load_sent_hashes(file) \cup NewHashes(top))

Commit ==
    /\ pc = "Committing"
    /\ disk' = Committed(disk, top_entries)
    /\ pc' = "Done"
    /\ exit_code' = 0
    /\ writes' = Append(writes, disk')
    /\ UNCHANGED <<feeds, webhook_set, disk_at_start, run, earlier>>
    /\ UNCHANGED <<clock, src_i, ent_i, sent_hashes, candidates, origin, visited, failed>>
    /\ UNCHANGED <<top_entries, score_reply, llm_calls, synth_reply, report, revalidated>>
    /\ UNCHANGED <<attempt, posts, sleeps, delivery>>

\* ------------------------------------------------------------- specifications
\* State at the first statement of fetch_rss_entries' loop, the store already loaded.
StartOfRun(fs, file, hook) ==
    /\ feeds = fs
    /\ webhook_set = hook
    /\ disk = file
    /\ disk_at_start = file
    /\ clock = StartHour
    /\ pc = "Ingesting"
    /\ exit_code = -1
    /\ src_i = 1
    /\ ent_i = 1
    /\ sent_hashes = load_sent_hashes(file)
    /\ candidates = <<>>
    /\ origin = <<>>
    /\ visited = <<>>
    /\ failed = {}
    /\ top_entries = <<>>
    /\ score_reply = NoScoresKey
    /\ llm_calls = <<>>
    /\ synth_reply = JNull
    /\ report = JNull
    /\ revalidated = NotValidated
    /\ attempt = 0
    /\ posts = <<>>
    /\ sleeps = <<>>
    /\ delivery = "none"
    /\ writes = <<>>
    /\ run = 1
    /\ earlier = <<>>

Init == \E fs \in MainFeeds, file \in StartDisks, hook \in BOOLEAN : StartOfRun(fs, file, hook)

Next ==
    \/ ProcessEntry \/ SourceExhausted \/ SourceFails \/ FetchReturn
    \/ ScoreFails \/ ScoreReturns
    \/ SynthFails \/ SynthReturns
    \/ SendSkipped \/ SendRaises \/ Post
    \/ Commit

Spec == Init /\ [][Next]_vars

\* main is one sequential thread: whenever a step is possible it is eventually taken
\* (every network call returns or times out).
FairSpec == Spec /\ WF_vars(Next)

\* ------------------------------------------------------------- successive runs
Terminal == {"Done", "Aborted", "Crashed"}

Links(entries) == {entries[i].link : i \in 1..Len(entries)}

\* What a run leaves behind for the runs after it.
RunSummary ==
    [selected |-> Links(top_entries), committed |-> writes # <<>>,
     posted |-> posts # <<>>, delivery |-> delivery]

\* The scheduler invokes main again: the process starts afresh, the store is the file
\* the run before left, RSS_URLS and what the feeds list are as before; the time between
\* two runs counts as part of the clock's drift.
NewRun ==
    /\ pc \in Terminal
    /\ run < MaxRuns
    /\ run' = run + 1
    /\ earlier' = Append(earlier, RunSummary)
    /\ disk_at_start' = disk
    /\ sent_hashes' = load_sent_hashes(disk)
    /\ pc' = "Ingesting"
    /\ exit_code' = -1
    /\ src_i' = 1
    /\ ent_i' = 1
    /\ candidates' = <<>>
    /\ origin' = <<>>
    /\ visited' = <<>>
    /\ failed' = {}
    /\ top_entries' = <<>>
    /\ score_reply' = NoScoresKey
    /\ llm_calls' = <<>>
    /\ synth_reply' = JNull
    /\ report' = JNull
    /\ revalidated' = NotValidated
    /\ attempt' = 0
    /\ posts' = <<>>
    /\ sleeps' = <<>>
    /\ delivery' = "none"
    /\ writes' = <<>>
    /\ UNCHANGED <<feeds, webhook_set, disk, clock>>

\* The feed list successive runs are explored on: two entries in the first source, the
\* second of them listed by the second source too.
RunFeeds == { <<<<Entry(1, Fresh, 1), Entry(2, Fresh, 1)>>, <<Entry(2, Edge, 1)>>>> }

\* The first run finds no store.
InitRuns == \E fs \in RunFeeds, hook \in BOOLEAN : StartOfRun(fs, <<>>, hook)

SpecRuns == InitRuns /\ [][Next \/ NewRun]_vars

\* score_entries alone: the state after ingesting one source, then any scores array of
\* up to MaxScores records over a seen link, a second link and an invented one, with or
\* without a score; the reason of a record is its position in the array.
ScoreFeeds ==
    { <<<<Entry(1, Fresh, 1)>>>>,
      <<<<Entry(1, Fresh, 1), Entry(2, Fresh, 1)>>>>,
      <<<<Entry(1, Fresh, 1), Entry(2, Fresh, 1), Entry(1, Edge, SUMMARY_LIMIT + 1)>>>> }

ScoreShapes ==
    {[link |-> l, score |-> s] : l \in {1, 2, GhostLink}, s \in 1..2}
    \cup {[link |-> 1], [link |-> GhostLink]}

Reasoned(shapes) == [i \in 1..Len(shapes) |-> shapes[i] @@ [reason |-> i]]

SeqsUpTo(S, n) == UNION {[1..k -> S] : k \in 0..n}

InitScore ==
    \E fs \in ScoreFeeds :
        /\ feeds = fs
        /\ webhook_set = TRUE
        /\ disk = <<>>
        /\ disk_at_start = <<>>
        /\ clock = StartHour
        /\ pc = "Scoring"
        /\ exit_code = -1
        /\ src_i = 2
        /\ ent_i = 1
        /\ sent_hashes = {}
        /\ candidates = [j \in 1..Len(fs[1]) |-> Candidate(fs[1][j])]
        /\ origin = [j \in 1..Len(fs[1]) |-> <<1, j>>]
        /\ visited = [j \in 1..Len(fs[1]) |-> [src |-> 1, ent |-> j, now |-> StartHour]]
        /\ failed = {}
        /\ top_entries = <<>>
        /\ score_reply = NoScoresKey
        /\ llm_calls = <<>>
        /\ synth_reply = JNull
        /\ report = JNull
        /\ revalidated = NotValidated
        /\ attempt = 0
        /\ posts = <<>>
        /\ sleeps = <<>>
        /\ delivery = "none"
        /\ writes = <<>>
        /\ run = 1
        /\ earlier = <<>>

ScoreAny ==
    /\ pc = "Scoring"
    /\ \E shapes \in SeqsUpTo(ScoreShapes, MaxScores) : ScoreStep(ScoresReply(Reasoned(shapes)))

SpecScore == InitScore /\ [][ScoreAny]_vars

\* validate_and_fix_report alone: the state after one entry was ingested and selected,
\* then any reply of ValidateReplies, then the validator once more on its own result.
InitValidate ==
    LET entry == Entry(1, Fresh, 1)
        record == ScoreRecord(1, 2, 1)
    IN  /\ feeds = <<<<entry>>>>
        /\ webhook_set = TRUE
        /\ disk = <<>>
        /\ disk_at_start = <<>>
        /\ clock = StartHour
        /\ pc = "Synthesizing"
        /\ exit_code = -1
        /\ src_i = 2
        /\ ent_i = 1
        /\ sent_hashes = {}
        /\ candidates = <<Candidate(entry)>>
        /\ origin = <<<<1, 1>>>>
        /\ visited = <<[src |-> 1, ent |-> 1, now |-> StartHour]>>
        /\ failed = {}
        /\ top_entries = <<ScoredEntry(Candidate(entry), record)>>
        /\ score_reply = ScoresReply(<<record>>)
        /\ llm_calls = <<Call("score", "ok")>>
        /\ synth_reply = JNull
        /\ report = JNull
        /\ revalidated = NotValidated
        /\ attempt = 0
        /\ posts = <<>>
        /\ sleeps = <<>>
        /\ delivery = "none"
        /\ writes = <<>>
        /\ run = 1
        /\ earlier = <<>>

ValidateAny ==
    /\ pc = "Synthesizing"
    /\ \E reply \in ValidateReplies(top_entries) : SynthStep(reply)

ValidateAgain ==
    /\ pc = "Delivering"
    /\ revalidated = NotValidated
    /\ revalidated' = validate_and_fix_report(report)
    /\ UNCHANGED <<feeds, webhook_set, disk, disk_at_start, clock, pc, exit_code, src_i, ent_i,
                   sent_hashes, candidates, origin, visited, failed, top_entries, score_reply,
                   llm_calls, synth_reply, report, attempt, posts, sleeps, delivery, writes,
                   run, earlier>>

SpecValidate == InitValidate /\ [][ValidateAny \/ ValidateAgain]_vars

InitFetch == \E fs \in FetchFeeds, file \in StartDisks : StartOfRun(fs, file, TRUE)

SpecFetch == InitFetch /\ [][FetchNext]_vars

\* ====================================================================== claims
Returned == {"ok", "failed", "skipped"}

FailedPosts == PostExceptions \cup {"nonzero_code"}

\* C1: once scoring has selected entries and synthesis has given a report whose card
\* can be sent or need not be (no webhook url), and again once send_to_feishu has
\* returned with whichever delivery outcome (accepted on some attempt, all three
\* attempts failed, or skipped), the run goes on to write the fingerprints of the
\* selected entries to the store and ends with status 0.
C1_CommitAfterAnyDelivery ==
    /\ (pc = "Delivering" /\ (webhook_set => ~RenderRaises(report))) ~>
          (pc = "Done" /\ exit_code = 0 /\ NewHashes(top_entries) \subseteq Range(disk))
    /\ \A outcome \in Returned :
          (delivery = outcome) ~>
              (pc = "Done" /\ exit_code = 0 /\ NewHashes(top_entries) \subseteq Range(disk))

C1_FailedDeliveryCommitted ==
    /\ pc = "Done"
    /\ delivery = "failed"
    /\ Len(posts) = MAX_ATTEMPTS
    /\ top_entries # <<>>
    /\ NewHashes(top_entries) \subseteq Range(disk)
    /\ ~(NewHashes(top_entries) \subseteq Range(disk_at_start))

\* C2: send_to_feishu posts at most 3 times; the attempt the webhook accepts is the
\* last one made; terminal failure is declared after exactly 3 failed attempts
\* (transport error, non-success status, unparseable body or non-zero code), and is
\* declared whenever 3 attempts failed.
C2_AtMostThreeAttempts ==
    /\ Len(posts) <= 3
    /\ \A k \in 1..Len(posts) : posts[k] = "ok" => k = Len(posts)
    /\ delivery = "ok" <=> (posts # <<>> /\ posts[Len(posts)] = "ok")
    /\ delivery = "failed" <=>
          (Len(posts) = 3 /\ \A k \in 1..3 : posts[k] \in FailedPosts)
    /\ (pc = "Delivering" /\ webhook_set /\ ~RenderRaises(report)) => Len(posts) < 3

C2_AcceptedOnSecondAttempt ==
    /\ delivery = "ok"
    /\ Len(posts) = 2
    /\ posts[1] \in FailedPosts
    /\ pc = "Done"

\* C3 (as claimed): every failed attempt that another attempt follows is separated
\* from it by a wait of 2^(k-1) seconds (1 s after the first, 2 s after the second),
\* whether it failed by an exception or by a non-zero code; nothing waits after the
\* third attempt.
C3_BackoffAfterEveryFailure ==
    /\ \A k \in 1..(Len(posts) - 1) :
          \E i \in 1..Len(sleeps) : sleeps[i] = [after |-> k, seconds |-> 2 ^ (k - 1)]
    /\ \A i \in 1..Len(sleeps) : sleeps[i].after < 3

\* C4 (as claimed): send_to_feishu never raises: from Delivering, main only ever goes
\* on delivering or proceeds to Committing.
C4_SendNeverRaises ==
    [][pc = "Delivering" => pc' \in {"Delivering", "Committing"}]_vars

\* C5: when the scoring or the synthesis call fails, the run is over with exit status
\* 1, no webhook POST was or will be made, and the store is as the run found it.
C5_ProviderFailureAborts ==
    (\E i \in 1..Len(llm_calls) : llm_calls[i].outcome # "ok") =>
        /\ pc = "Aborted"
        /\ exit_code = 1
        /\ ~ENABLED Next
        /\ posts = <<>>
        /\ delivery = "none"
        /\ disk = disk_at_start

C5_SynthesisFailedAfterScoring ==
    /\ Len(llm_calls) = 2
    /\ llm_calls[1] = Call("score", "ok")
    /\ llm_calls[2].stage = "synthesize"
    /\ llm_calls[2].outcome = "bad_content"
    /\ top_entries # <<>>
    /\ pc = "Aborted"

\* ------------------------------------------------------------- ingestion claims
At(k) == <<visited[k].src, visited[k].ent>>

Emitted(k) == \E c \in 1..Len(origin) : origin[c] = At(k)

\* C6: a feed entry the loop reached became a candidate if and only if its link is
\* non-empty, the fingerprint of its link is not in the store as the run found it, and
\* its timestamp parses and lies at most 48 hours before the moment it was tested
\* (exactly 48 hours included); every candidate is the entry at its position.
C6_EmittedIffQualifies ==
    /\ Len(origin) = Len(candidates)
    /\ \A k \in 1..Len(visited) :
        LET entry == feeds[visited[k].src][visited[k].ent]
        IN  Emitted(k) <=>
              /\ entry.link # 0
              /\ hash_link(entry.link) \notin Range(disk_at_start)
              /\ entry.published.parses
              /\ visited[k].now - pub_time(entry.published) <= 48
    /\ \A c \in 1..Len(candidates) :
        /\ candidates[c].link = feeds[origin[c][1]][origin[c][2]].link
        /\ candidates[c].hash = hash_link(candidates[c].link)
        /\ \E k \in 1..Len(visited) : At(k) = origin[c]

\* An entry exactly 48 hours old was emitted, while the same feed list also showed the
\* filter a link that is in the store.
C6_BoundaryEntryEmitted ==
    /\ pc # "Ingesting"
    /\ \E k \in 1..Len(visited) :
        LET entry == feeds[visited[k].src][visited[k].ent]
        IN  /\ visited[k].now - pub_time(entry.published) = 48
            /\ Emitted(k)
    /\ \E k \in 1..Len(visited) :
        LET entry == feeds[visited[k].src][visited[k].ent]
        IN  /\ hash_link(entry.link) \in Range(disk_at_start)
            /\ entry.published = Fresh
            /\ ~Emitted(k)

PositionBefore(a, b) == a[1] < b[1] \/ (a[1] = b[1] /\ a[2] < b[2])

\* C7: there are never more than 30 candidates; they stand in source order, then entry
\* order; and once there are 30 the loop is over, the entry that gave the 30th being
\* the last one the loop body ran for.
C7_CapAndOrder ==
    /\ Len(candidates) <= 30
    /\ \A a \in 1..Len(origin) : \A b \in 1..Len(origin) :
          a < b => PositionBefore(origin[a], origin[b])
    /\ Len(candidates) = 30 =>
          /\ pc # "Ingesting"
          /\ At(Len(visited)) = origin[30]
          /\ ~ENABLED FetchNext

\* The 30th candidate came while entries of the current source and a further source
\* were still to come.
C7_CapReachedMidSource ==
    /\ Len(candidates) = 30
    /\ src_i < Len(feeds)
    /\ ent_i < Len(feeds[src_i])
    /\ Len(feeds[src_i + 1]) > 0

Reached(i, j) == \E k \in 1..Len(visited) : At(k) = <<i, j>>

\* C8: when ingestion is over and the cap was not reached, every source that did not
\* fail had all its entries tested, also the sources after a failing one; and the
\* candidates taken from a source before it failed are in the result.
C8_FailureSkipsOneSource ==
    /\ (pc # "Ingesting" /\ Len(candidates) < MAX_CANDIDATES) =>
          \A i \in 1..Len(feeds) :
              i \notin failed => \A j \in 1..Len(feeds[i]) : Reached(i, j)
    /\ \A k \in 1..Len(visited) :
          LET entry == feeds[visited[k].src][visited[k].ent]
          IN  Qualifies(entry, Range(disk_at_start), visited[k].now) =>
                 \E c \in 1..Len(candidates) :
                     origin[c] = At(k) /\ candidates[c] = Candidate(entry)

\* The first source failed after giving a candidate, and the second gave one too.
C8_CandidatesAroundFailure ==
    /\ pc = "Scoring"
    /\ failed = {1}
    /\ Len(feeds) = 2
    /\ Len(candidates) = 2
    /\ origin[1][1] = 1
    /\ origin[2][1] = 2

\* ---------------------------------------------------------------- scoring claims
ScoreReturned == llm_calls = <<Call("score", "ok")>> /\ pc \in {"Done", "Synthesizing"}

Records == score_reply.scores

Matched(a) == \E c \in 1..Len(candidates) : candidates[c].link = Records[a].link

\* Record a stands before record b in descending score order, ties in input order.
Outranks(a, b) ==
    \/ ScoreKey(Records[a]) > ScoreKey(Records[b])
    \/ ScoreKey(Records[a]) = ScoreKey(Records[b]) /\ a < b

Rank(a) == Cardinality({b \in 1..Len(Records) : Outranks(b, a)})

Kept == {a \in 1..Len(Records) : Rank(a) < 3 /\ Matched(a)}

IsCandidate(e) ==
    \E c \in 1..Len(candidates) :
        /\ e.link = candidates[c].link
        /\ e.hash = candidates[c].hash
        /\ e.title = candidates[c].title
        /\ e.summary = candidates[c].summary
        /\ e.published = candidates[c].published

\* C9: the result of score_entries is made of the records that are among the first 3
\* in descending score order (ties in the provider's order) and whose link is a
\* candidate's link, in that order: at most 3 entries, scores descending, each an
\* ingested candidate with the score and reason of its record.
C9_TopThreeThenRejoin ==
    ScoreReturned =>
        /\ Len(top_entries) <= 3
        /\ Len(top_entries) = Cardinality(Kept)
        /\ \A a \in Kept :
              LET i == 1 + Cardinality({b \in Kept : Outranks(b, a)})
              IN  /\ top_entries[i].link = Records[a].link
                  /\ top_entries[i].score = Records[a].score
                  /\ top_entries[i].score_reason = Records[a].reason
        /\ \A i \in 1..Len(top_entries) : IsCandidate(top_entries[i])
        /\ \A i \in 1..Len(top_entries) : \A j \in 1..Len(top_entries) :
              i < j => top_entries[i].score >= top_entries[j].score

\* Four records, the best three tied: the tie is kept in input order, one of the three
\* has an invented link and is dropped, and the fourth record is not taken instead.
C9_TieAndDropSeen ==
    /\ ScoreReturned
    /\ Len(Records) = 4
    /\ \A a \in 1..3 : ScoreKey(Records[a]) = 2
    /\ ScoreKey(Records[4]) = 1
    /\ Matched(1) /\ ~Matched(2) /\ Matched(3) /\ Matched(4)
    /\ Len(top_entries) = 2
    /\ top_entries[1].score_reason = 1
    /\ top_entries[2].score_reason = 3

\* A scored item as the contract has it: link, score and reason.
Scored(a) == DOMAIN Records[a] = {"link", "score", "reason"}

\* C10 (as claimed): with fewer than 3 scored items, score_entries returns exactly as
\* many entries as there are scored items, each an ingested candidate.
C10_ExactlyAsManyAsScored ==
    (ScoreReturned /\ Len(Records) < TOP_N /\ \A a \in 1..Len(Records) : Scored(a)) =>
        /\ Len(top_entries) = Len(Records)
        /\ \A i \in 1..Len(top_entries) : IsCandidate(top_entries[i])

\* C10 (amended): with fewer than 3 scored items, score_entries returns exactly as many
\* entries as there are scored items whose link is the link of an ingested candidate,
\* each an ingested candidate.
C10_ExactlyAsManyAsMatched ==
    (ScoreReturned /\ Len(Records) < TOP_N) =>
        /\ Len(top_entries) = Cardinality({a \in 1..Len(Records) : Matched(a)})
        /\ \A i \in 1..Len(top_entries) : IsCandidate(top_entries[i])

\* Two scored items, one with an invented link: one entry comes back.
C10_OneOfTwoMatched ==
    /\ ScoreReturned
    /\ Len(Records) = 2
    /\ Scored(1) /\ Scored(2)
    /\ ~Matched(1) /\ Matched(2)
    /\ Len(top_entries) = 1
    /\ top_entries[1].link = Records[2].link

\* -------------------------------------------------------------- validator claims
Validated == \E i \in 1..Len(llm_calls) : llm_calls[i] = Call("synthesize", "ok")

ValidatorRaised == Validated /\ pc = "Crashed" /\ delivery = "none"

ValidatorReturned == Validated /\ ~ValidatorRaised

\* Every declared field of the ReportDocument is there, the objects are objects and the
\* lists are lists.
WellShaped(doc) ==
    /\ IsDict(doc)
    /\ DOMAIN default_report \subseteq DOMAIN doc.fields
    /\ \A key \in {"decision", "action"} :
          /\ IsDict(doc.fields[key])
          /\ \A k \in DOMAIN default_report[key].fields : Has(doc.fields[key].fields, k)
    /\ \A key \in {"core_changes", "related", "sources"} : IsList(doc.fields[key])
    /\ IsDict(doc.fields.impacts)
    /\ \A group \in Groups :
          /\ Has(doc.fields.impacts.fields, group)
          /\ IsDict(doc.fields.impacts.fields[group])
          /\ \A role \in Roles(group) : Has(doc.fields.impacts.fields[group].fields, role)

\* C11 (as claimed): on every JSON object, validate_and_fix_report returns (it never
\* raises), and what it returns is a complete ReportDocument: every declared field is
\* present, impacts, its clusters, decision and action are objects, and core_changes,
\* related and sources are lists.
C11_ValidatorTotal ==
    (Validated /\ IsDict(synth_reply)) => (~ValidatorRaised /\ WellShaped(report))

\* C12: whenever validate_and_fix_report returned, applying it to its own result
\* returns too, and returns a document equal to that result.
C12_SecondPassChangesNothing ==
    /\ revalidated # NotValidated =>
          (ValidatorReturned /\ ~revalidated.raised /\ revalidated.value = report)
    /\ (ValidatorReturned /\ pc = "Delivering" /\ revalidated = NotValidated) =>
          ENABLED ValidateAgain

\* The first pass filled in defaults and cut four core changes down to two; the second
\* pass left that result as it was.
C12_RepairedThenUnchanged ==
    /\ revalidated # NotValidated
    /\ IsDict(synth_reply)
    /\ ~Has(synth_reply.fields, "impacts")
    /\ Has(synth_reply.fields, "core_changes")
    /\ IsList(synth_reply.fields.core_changes)
    /\ Len(synth_reply.fields.core_changes.items) = 4
    /\ report # synth_reply
    /\ revalidated.value = report

\* The value the reply gives for a role: JNull when impacts, the cluster or the role is
\* not there.
RoleSent(group, role) ==
    IF /\ Has(synth_reply.fields, "impacts")
       /\ IsDict(synth_reply.fields.impacts)
       /\ Has(synth_reply.fields.impacts.fields, group)
       /\ IsDict(synth_reply.fields.impacts.fields[group])
       /\ Has(synth_reply.fields.impacts.fields[group].fields, role)
    THEN synth_reply.fields.impacts.fields[group].fields[role]
    ELSE JNull

RoleKept(group, role) == report.fields.impacts.fields[group].fields[role]

C14_EveryFieldNonEmpty ==
    ValidatorReturned =>
        /\ \A key \in {"date", "theme"} :
              Has(report.fields, key) /\ Truthy(report.fields[key])
        /\ \A key \in {"decision", "action"} :
              /\ Has(report.fields, key)
              /\ IsDict(report.fields[key])
              /\ \A k \in DOMAIN default_report[key].fields :
                    Has(report.fields[key].fields, k) /\ Truthy(report.fields[key].fields[k])
        /\ \A group \in Groups : \A role \in Roles(group) : Truthy(RoleKept(group, role))

\* Number of elements of a value: the items of a list, the characters of a string, the
\* keys of an object; the other values have none.
Size(v) ==
    CASE v.kind = "list" -> Len(v.items)
      [] v.kind = "str"  -> Len(v.str)
      [] v.kind = "dict" -> Cardinality(DOMAIN v.fields)
      [] OTHER           -> 0

\* C15 (as claimed): whenever validate_and_fix_report returned, core_changes and related
\* have at most 2 elements and sources at most 3, whatever the reply gave for them; a
\* list of the reply is cut to its leading elements in order, shorter lists are kept as
\* they are, and a missing related is the empty list.
C15_ListFieldsBounded ==
    (ValidatorReturned /\ IsDict(synth_reply)) =>
        /\ \A key \in {"core_changes", "related", "sources"} :
              LET n == IF key = "sources" THEN 3 ELSE 2
              IN  /\ Has(report.fields, key)
                  /\ Size(report.fields[key]) <= n
                  /\ (Has(synth_reply.fields, key) /\ IsList(synth_reply.fields[key])) =>
                        report.fields[key] = JList(Take(synth_reply.fields[key].items, n))
        /\ ~Has(synth_reply.fields, "related") => report.fields.related = JList(<<>>)

\* ------------------------------------------------------------ whole-run claims
StoreAtStart == Range(disk_at_start)

Store == Range(disk)

\* C16 (as claimed): after a run that reached Committing the store is the store before
\* the run united with the fingerprints of the selected entries, and it has gained
\* exactly one entry per selected entry.
C16_StoreGainsOnePerSelected ==
    writes # <<>> =>
        /\ Store = StoreAtStart \cup NewHashes(top_entries)
        /\ Cardinality(Store) = Cardinality(StoreAtStart) + Len(top_entries)

\* C16 (amended): no fingerprint ever leaves the store, and the store is as the run
\* found it until the commit; after a run that reached Committing the store is the
\* store before the run united with the fingerprints of the selected entries, it holds
\* no fingerprint of a candidate that was not selected, and it has gained exactly one
\* entry per distinct link among the selected entries.
C16_StoreGainsOnePerSelectedLink ==
    /\ StoreAtStart \subseteq Store
    /\ writes = <<>> => disk = disk_at_start
    /\ writes # <<>> =>
          /\ pc = "Done"
          /\ writes = <<disk>>
          /\ Store = StoreAtStart \cup {hash_link(l) : l \in Links(top_entries)}
          /\ \A c \in 1..Len(candidates) :
                candidates[c].link \notin Links(top_entries) => candidates[c].hash \notin Store
          /\ Cardinality(Store) = Cardinality(StoreAtStart) + Cardinality(Links(top_entries))
          /\ Len(disk) = Cardinality(Store)

\* Five unseen candidates, three of them selected: the store gained their three
\* fingerprints and not those of the other two.
C16_ThreeOfFiveCommitted ==
    /\ pc = "Done"
    /\ writes # <<>>
    /\ Len(candidates) = 5
    /\ Len(top_entries) = 3
    /\ Cardinality(Store) = Cardinality(StoreAtStart) + 3
    /\ \E c \in 1..5 : candidates[c].hash \notin Store

\* C17: when ingestion ends with no candidate, and when score_entries returns no
\* entry, the run is over with exit status 0, the store is as the run found it, and
\* nothing of the later stages has run or will run: no scoring call after an empty
\* ingestion; no synthesis call, no POST and no store write after an empty selection.
C17_EarlyExitsTouchNothing ==
    /\ (pc # "Ingesting" /\ candidates = <<>>) =>
          /\ pc = "Done" /\ exit_code = 0
          /\ llm_calls = <<>>
          /\ report = JNull /\ posts = <<>> /\ delivery = "none"
          /\ writes = <<>> /\ disk = disk_at_start
          /\ ~ENABLED Next
    /\ (llm_calls # <<>> /\ llm_calls[1] = Call("score", "ok")
           /\ top_entries = <<>> /\ pc # "Crashed") =>
          /\ pc = "Done" /\ exit_code = 0
          /\ llm_calls = <<Call("score", "ok")>>
          /\ report = JNull /\ posts = <<>> /\ delivery = "none"
          /\ writes = <<>> /\ disk = disk_at_start
          /\ ~ENABLED Next

\* The store held a fingerprint, a candidate was ingested, and the provider scored only
\* a link that no candidate has: the run ended after the scoring call.
C17_NothingSelected ==
    /\ pc = "Done"
    /\ disk_at_start # <<>>
    /\ candidates # <<>>
    /\ score_reply = ScoresReply(<<ScoreRecord(GhostLink, 2, 1)>>)
    /\ top_entries = <<>>
    /\ llm_calls = <<Call("score", "ok")>>

StageRank(stage) ==
    CASE stage = "Ingesting"    -> 1
      [] stage = "Scoring"      -> 2
      [] stage = "Synthesizing" -> 3
      [] stage = "Delivering"   -> 4
      [] stage = "Committing"   -> 5
      [] OTHER                  -> 6

CallsOf(stage) == Cardinality({i \in 1..Len(llm_calls) : llm_calls[i].stage = stage})

\* C18: every run ends (normal end, sys.exit(1) or an uncaught exception); main only
\* moves forward through Ingesting, Scoring, Synthesizing, Delivering, Committing and
\* never leaves its end state; it makes at most one scoring call, one synthesis call
\* and 3 POSTs, and it writes the store at most once, after send_to_feishu returned.
C18_OneShotAndTerminates ==
    /\ <>(pc \in Terminal)
    /\ [][/\ StageRank(pc') >= StageRank(pc)
           /\ pc \in Terminal => pc' = pc]_vars
    /\ [](/\ CallsOf("score") <= 1
           /\ CallsOf("synthesize") <= 1
           /\ Len(llm_calls) <= 2
           /\ Len(posts) <= 3
           /\ Len(writes) <= 1
           /\ writes # <<>> => (pc = "Done" /\ delivery \in Returned))

\* A run that went through every stage: both calls, three POSTs of which the last was
\* accepted, one write.
C18_FullRunEnded ==
    /\ pc = "Done"
    /\ Len(llm_calls) = 2
    /\ posts = <<"nonzero_code", "transport", "ok">>
    /\ Len(writes) = 1

\* C19: a link selected by an earlier run that reached Committing is no candidate and
\* no selected entry of this run, whatever the delivery of that run came to; and a run
\* that posted reached Committing, so no link is posted by two runs.
C19_SelectedOnceForAll ==
    \A k \in 1..Len(earlier) :
        /\ earlier[k].posted => earlier[k].committed
        /\ earlier[k].delivery \in Returned => earlier[k].committed
        /\ earlier[k].committed =>
              /\ \A l \in earlier[k].selected :
                    /\ hash_link(l) \in Store
                    /\ l \notin Links(candidates)
                    /\ l \notin Links(top_entries)

\* The first run selected link 1 and committed it although its delivery failed; the
\* second run met link 1 in the feed again, left it out, and posted another link.
C19_SecondRunSkipsSentLink ==
    /\ run = 2
    /\ earlier[1].committed
    /\ earlier[1].delivery = "failed"
    /\ earlier[1].selected = {1}
    /\ \E k \in 1..Len(visited) : feeds[visited[k].src][visited[k].ent].link = 1
    /\ Links(top_entries) = {2}
    /\ posts # <<>>

\* C20 (as claimed): no two candidates have the same link, and no two selected entries
\* have the same link.
C20_NoRepeatedLink ==
    /\ \A a \in 1..Len(candidates) : \A b \in 1..Len(candidates) :
          a # b => candidates[a].link # candidates[b].link
    /\ \A a \in 1..Len(top_entries) : \A b \in 1..Len(top_entries) :
          a # b => top_entries[a].link # top_entries[b].link

Listed(link) ==
    {k \in 1..Len(visited) :
        LET entry == feeds[visited[k].src][visited[k].ent]
        IN  entry.link = link /\ Qualifies(entry, StoreAtStart, visited[k].now)}

\* C20 (amended): the fingerprint is per link: two candidates, or two selected entries,
\* have the same fingerprint exactly when they have the same link.  Repeated links are
\* kept: a link is among the candidates as many times as the feeds listed it in an entry
\* that met the filter, and among the selected entries as many times as it occurs in
\* the best 3 score records.
C20_FingerprintPerLink ==
    /\ \A a \in 1..Len(candidates) : \A b \in 1..Len(candidates) :
          candidates[a].hash = candidates[b].hash <=> candidates[a].link = candidates[b].link
    /\ \A a \in 1..Len(top_entries) : \A b \in 1..Len(top_entries) :
          top_entries[a].hash = top_entries[b].hash <=> top_entries[a].link = top_entries[b].link
    /\ \A l \in Links(candidates) :
          Cardinality({c \in 1..Len(candidates) : candidates[c].link = l})
              = Cardinality(Listed(l))
    /\ top_entries # <<>> =>
          \A l \in Links(candidates) :
              Cardinality({i \in 1..Len(top_entries) : top_entries[i].link = l})
                  = Cardinality({a \in 1..Len(Records) : Rank(a) < TOP_N /\ Records[a].link = l})

\* Two sources listed the same entry and the provider scored both: the link is twice
\* among the candidates and twice among the selected entries, and once in the store.
C20_SameLinkTwice ==
    /\ pc = "Done"
    /\ Len(candidates) = 2
    /\ candidates[1].link = candidates[2].link
    /\ origin[1][1] # origin[2][1]
    /\ Len(top_entries) = 2
    /\ top_entries[1].link = top_entries[2].link
    /\ Cardinality(Store) = Cardinality(StoreAtStart) + 1

====
